---- MODULE Spec2Model ----
(***************************************************************************)
(* State-machine model of the three Anchor programs under src/contracts:   *)
(*   SolanaAgentRegistry.rs      (agent profiles, pricing, job reports)    *)
(*   SolanaPullupsLeaderboard.rs (single-exercise leaderboard)             *)
(*   SolanaLeaderboard.rs        (combined pullups + jumps leaderboard)    *)
(*                                                                         *)
(* An instruction is one atomic step: the account constraints of its       *)
(* #[derive(Accounts)] context are evaluated first, then the handler body  *)
(* runs; a failed constraint or a panic aborts the transaction and leaves  *)
(* every account as it was.  Integer widths are scaled down (U32Max,       *)
(* U64Max) so that the boundary of an unsigned counter is reachable.       *)
(***************************************************************************)
EXTENDS Integers, Sequences, FiniteSets, TLC

VARIABLES
    overflow_checks,   \* build profile: TRUE when `+` panics on overflow, FALSE when it wraps
    now,               \* Clock::get()?.unix_timestamp
    agent_profile,     \* registry program: address -> AgentProfile, for every initialized account
    pullups_leaderboard,  \* pullups program: address -> Leaderboard
    pullups_user_score,   \* pullups program: address -> UserScore
    pullups_events,       \* pullups program: the ScoreSubmitted events emitted, in order
    leaderboard,          \* combined program: address -> Leaderboard
    user_score,           \* combined program: address -> UserScore
    events,               \* combined program: the ScoreSubmitted events emitted, in order
    accepted,          \* history: the submit_score instructions that returned Ok, in order
    last               \* the last instruction processed: which one and its result

env_vars == <<overflow_checks, now>>
registry_vars == <<agent_profile>>
pullups_vars == <<pullups_leaderboard, pullups_user_score, pullups_events>>
combined_vars == <<leaderboard, user_score, events>>
vars == <<overflow_checks, now, agent_profile, pullups_leaderboard, pullups_user_score,
          pullups_events, leaderboard, user_score, events, accepted, last>>

(***************************************************************************)
(* Bounds of the model                                                     *)
(***************************************************************************)
U32Max == 1        \* largest u32 of the scaled model
MaxTime == 1       \* the clock runs over 0..MaxTime
MaxEvents == 3     \* accepted submissions explored per run
MaxEventsLong == 5 \* accepted submissions explored in the one-user, one-leaderboard runs
MaxBoardEvents == 2 \* accepted submissions explored in the one-leaderboard, every-user runs

\* u64 is wider than u32: the sum of two u32 values always fits
U64Max == 2 * U32Max + 1
U64Modulus == U64Max + 1

Keys == {"K1", "K2"}                      \* wallets (signers)
Mints == {"mintX"}                        \* payment assets
DefaultPubkey == "11111111111111111111111111111111"   \* Pubkey::default(), the zeroed key
BaseFees == {U64Max}
\* name, endpoint and capabilities that fit the space reserved by RegisterAgent
RegisterArgs ==
    { [name |-> "coach", endpoint |-> "https://coach", capabilities |-> <<"chat">>] }

(***************************************************************************)
(* Rust integer arithmetic on u64                                          *)
(***************************************************************************)
\* `a += b`: the mathematical sum does not fit in a u64
Overflows(a, b) == a + b > U64Max

\* `a += b` in a build without overflow checks: two's-complement wrap
WrappingAdd(a, b) == (a + b) % U64Modulus

saturating_add_wrapping(a, b) == (a + b) % U64Modulus

\* u64::saturating_add
saturating_add(a, b) == IF a + b > U64Max THEN U64Max ELSE a + b

(***************************************************************************)
(* Agent registry: SolanaAgentRegistry.rs                                  *)
(***************************************************************************)
\* seeds = [b"agent_profile", authority.key().as_ref()]
AgentProfilePda(authority) == <<"agent_profile", authority>>

AgentProfileAddrs == { AgentProfilePda(k) : k \in Keys }

\* the account data right after `init`: every byte zero
ZeroedAgentProfile ==
    [ authority |-> DefaultPubkey, name |-> "", endpoint |-> "", capabilities |-> << >>,
      base_fee |-> 0, asset_mint |-> DefaultPubkey, reputation_score |-> 0,
      total_jobs |-> 0, registered_at |-> 0, is_active |-> FALSE ]

\* reputation_score of the profile at addr as the instruction finds it (0 when there is none)
ReputationAt(addr) ==
    IF addr \in DOMAIN agent_profile THEN agent_profile[addr].reputation_score ELSE 0

RegisterAgentAccounts_if_needed(account, authority) ==
    IF account # AgentProfilePda(authority) THEN "ConstraintSeeds" ELSE "Ok"

RegisterAgentAccounts_no_seeds(account, authority) ==
    IF account \in DOMAIN agent_profile THEN "AlreadyExists" ELSE "Ok"

\* #[derive(Accounts)] RegisterAgent: `init` with seeds.  The address must be the
\* PDA of the signer, and `init` creates the account, which the system program
\* refuses when the address is already in use (AlreadyExists).
RegisterAgentAccounts(account, authority) ==
    IF account # AgentProfilePda(authority) THEN "ConstraintSeeds"
    ELSE IF account \in DOMAIN agent_profile THEN "AlreadyExists"
    ELSE "Ok"

\* handler body of register_agent
register_agent(profile, authority, name, endpoint, capabilities) ==
    [ profile EXCEPT !.authority = authority,
                     !.name = name,
                     !.endpoint = endpoint,
                     !.capabilities = capabilities,
                     !.reputation_score = 0,
                     !.total_jobs = 0,
                     !.registered_at = now,
                     !.is_active = TRUE ]

\* #[derive(Accounts)] UpdateAgent: the account must exist (Account<AgentProfile>),
\* sit at the PDA of the signer (seeds), and store the signer (has_one).
UpdateAgentAccounts(account, authority) ==
    IF account \notin DOMAIN agent_profile THEN "NotFound"
    ELSE IF account # AgentProfilePda(authority) THEN "ConstraintSeeds"
    ELSE IF agent_profile[account].authority # authority THEN "ConstraintHasOne"
    ELSE "Ok"

update_pricing_resets_reputation(profile, authority, base_fee, asset_mint) ==
    IF profile.authority # authority
    THEN [ result |-> "Unauthorized", agent_profile |-> profile ]
    ELSE [ result |-> "Ok",
           agent_profile |-> [ profile EXCEPT !.base_fee = base_fee,
                                              !.asset_mint = asset_mint,
                                              !.reputation_score = 0 ] ]

\* handler body of update_pricing: require!(..., AgentError::Unauthorized), then the writes
update_pricing(profile, authority, base_fee, asset_mint) ==
    IF profile.authority # authority
    THEN [ result |-> "Unauthorized", agent_profile |-> profile ]
    ELSE [ result |-> "Ok",
           agent_profile |-> [ profile EXCEPT !.base_fee = base_fee,
                                              !.asset_mint = asset_mint ] ]

\* #[derive(Accounts)] ReportJob: any existing AgentProfile, any signer
ReportJobAccounts(account, reporter) ==
    IF account \notin DOMAIN agent_profile THEN "NotFound" ELSE "Ok"

\* handler body of report_job_completion: `total_jobs += 1` panics or wraps at
\* u64::MAX depending on the build; the reputation increment saturates.
report_job_completion(profile, success) ==
    IF overflow_checks /\ Overflows(profile.total_jobs, 1)
    THEN [ result |-> "Overflow", agent_profile |-> profile ]
    ELSE LET counted == [ profile EXCEPT !.total_jobs = WrappingAdd(@, 1) ]
         IN  [ result |-> "Ok",
               agent_profile |->
                   IF success
                   THEN [ counted EXCEPT !.reputation_score = saturating_add(@, 1) ]
                   ELSE counted ]

\* instruction register_agent
RegisterAgent(authority, account, args) ==
    LET res == RegisterAgentAccounts(account, authority)
        created == register_agent(ZeroedAgentProfile, authority,
                                  args.name, args.endpoint, args.capabilities)
    IN  /\ agent_profile' = IF res = "Ok"
                            THEN (account :> created) @@ agent_profile
                            ELSE agent_profile
        /\ last' = [ op |-> "register_agent", account |-> account, result |-> res ]
        /\ UNCHANGED <<overflow_checks, now, pullups_vars, combined_vars, accepted>>

\* instruction update_pricing
UpdatePricing(authority, account, base_fee, asset_mint) ==
    LET ctx == UpdateAgentAccounts(account, authority)
        out == update_pricing(agent_profile[account], authority, base_fee, asset_mint)
        res == IF ctx = "Ok" THEN out.result ELSE ctx
    IN  /\ agent_profile' = IF res = "Ok"
                            THEN [ agent_profile EXCEPT ![account] = out.agent_profile ]
                            ELSE agent_profile
        /\ last' = [ op |-> "update_pricing", account |-> account, result |-> res ]
        /\ UNCHANGED <<overflow_checks, now, pullups_vars, combined_vars, accepted>>

\* instruction report_job_completion
ReportJobCompletion(reporter, account, success) ==
    LET ctx == ReportJobAccounts(account, reporter)
        out == report_job_completion(agent_profile[account], success)
        res == IF ctx = "Ok" THEN out.result ELSE ctx
    IN  /\ agent_profile' = IF res = "Ok"
                            THEN [ agent_profile EXCEPT ![account] = out.agent_profile ]
                            ELSE agent_profile
        /\ last' = [ op |-> "report_job_completion", account |-> account,
                     result |-> res, success |-> success,
                     reputation_before |-> ReputationAt(account) ]
        /\ UNCHANGED <<overflow_checks, now, pullups_vars, combined_vars, accepted>>

(***************************************************************************)
(* Shared by both leaderboard programs                                     *)
(***************************************************************************)
Users == {"U1", "U2"}                     \* wallets that submit scores
LeaderboardKeys == {"L1", "L2"}           \* addresses of leaderboard accounts
U32Values == 0..U32Max                    \* the u32 instruction arguments

\* `x as u64` of a u32: the value is kept
U32AsU64(x) == x

\* `unix_timestamp as u64` of the i64 clock reading: reduced modulo 2^64
I64AsU64(t) == t % U64Modulus

\* the account data right after `init`: every byte zero
ZeroedLeaderboard == [ exercise_name |-> "", total_participants |-> 0, total_submissions |-> 0 ]

\* the order of the accepted submissions that named account `addr` of `program`
AcceptedOn(program, addr) ==
    SelectSeq(accepted, LAMBDA e : e.program = program /\ e.account = addr)

\* the order of the accepted submissions that named leaderboard `lb` of `program`
AcceptedFor(program, lb) ==
    SelectSeq(accepted, LAMBDA e : e.program = program /\ e.leaderboard = lb)

(***************************************************************************)
(* Single-exercise leaderboard: SolanaPullupsLeaderboard.rs                *)
(***************************************************************************)
\* seeds = [b"user_score", leaderboard.key().as_ref(), user.key().as_ref()]
PullupsUserScorePda(lb, user) == <<"user_score", lb, user>>

PullupsUserScoreAddrs == { PullupsUserScorePda(l, u) : l \in LeaderboardKeys, u \in Users }

ZeroedPullupsUserScore ==
    [ user |-> DefaultPubkey, total_score |-> 0, best_single_score |-> 0,
      submission_count |-> 0, last_submission_time |-> 0, first_submission_time |-> 0 ]

\* #[derive(Accounts)] Initialize: `init` of the leaderboard account
PullupsInitializeAccounts(lb) ==
    IF lb \in DOMAIN pullups_leaderboard THEN "AlreadyExists" ELSE "Ok"

\* handler body of initialize
pullups_initialize(board) ==
    [ board EXCEPT !.exercise_name = "pullups",
                   !.total_participants = 0,
                   !.total_submissions = 0 ]

\* #[derive(Accounts)] SubmitScore: the leaderboard must exist; user_score must be
\* the PDA of (leaderboard, user) and is created zeroed when absent (init_if_needed).
PullupsSubmitScoreAccounts(lb, account, user) ==
    IF lb \notin DOMAIN pullups_leaderboard THEN "NotFound"
    ELSE IF account # PullupsUserScorePda(lb, user) THEN "ConstraintSeeds"
    ELSE "Ok"

pullups_submit_score_stamps_swapped(board, score_rec, user, score) ==
    LET score_u64 == U32AsU64(score)
        is_new_user == score_rec.submission_count = 0
        panics == \/ Overflows(score_rec.total_score, score_u64)
                  \/ Overflows(score_rec.submission_count, 1)
                  \/ (is_new_user /\ Overflows(board.total_participants, 1))
                  \/ Overflows(board.total_submissions, 1)
        s1 == [ score_rec EXCEPT !.user = user,
                                 !.total_score = WrappingAdd(@, score_u64),
                                 !.submission_count = WrappingAdd(@, 1),
                                 !.first_submission_time = I64AsU64(now) ]
        s2 == IF is_new_user
              THEN [ s1 EXCEPT !.last_submission_time = I64AsU64(now) ]
              ELSE s1
        b1 == IF is_new_user
              THEN [ board EXCEPT !.total_participants = WrappingAdd(@, 1) ]
              ELSE board
        s3 == IF score_u64 > s2.best_single_score
              THEN [ s2 EXCEPT !.best_single_score = score_u64 ]
              ELSE s2
        b2 == [ b1 EXCEPT !.total_submissions = WrappingAdd(@, 1) ]
    IN  IF overflow_checks /\ panics
        THEN [ result |-> "Overflow", leaderboard |-> board, user_score |-> score_rec,
               emitted |-> << >> ]
        ELSE [ result |-> "Ok", leaderboard |-> b2, user_score |-> s3,
               emitted |-> << [ user |-> user,
                                score_added |-> score_u64,
                                new_total_score |-> s3.total_score,
                                new_best_score |-> s3.best_single_score,
                                timestamp |-> s3.last_submission_time ] >> ]

pullups_submit_score_emits_old_total(board, score_rec, user, score) ==
    LET score_u64 == U32AsU64(score)
        is_new_user == score_rec.submission_count = 0
        panics == \/ Overflows(score_rec.total_score, score_u64)
                  \/ Overflows(score_rec.submission_count, 1)
                  \/ (is_new_user /\ Overflows(board.total_participants, 1))
                  \/ Overflows(board.total_submissions, 1)
        s1 == [ score_rec EXCEPT !.user = user,
                                 !.total_score = WrappingAdd(@, score_u64),
                                 !.submission_count = WrappingAdd(@, 1),
                                 !.last_submission_time = I64AsU64(now) ]
        s2 == IF is_new_user
              THEN [ s1 EXCEPT !.first_submission_time = I64AsU64(now) ]
              ELSE s1
        b1 == IF is_new_user
              THEN [ board EXCEPT !.total_participants = WrappingAdd(@, 1) ]
              ELSE board
        s3 == IF score_u64 > s2.best_single_score
              THEN [ s2 EXCEPT !.best_single_score = score_u64 ]
              ELSE s2
        b2 == [ b1 EXCEPT !.total_submissions = WrappingAdd(@, 1) ]
        named == [ score_rec EXCEPT !.user = user ]
        aborted ==
            IF Overflows(score_rec.total_score, score_u64)
            THEN [ leaderboard |-> board, user_score |-> named ]
            ELSE IF Overflows(score_rec.submission_count, 1)
            THEN [ leaderboard |-> board,
                   user_score |-> [ named EXCEPT !.total_score = WrappingAdd(@, score_u64) ] ]
            ELSE IF is_new_user /\ Overflows(board.total_participants, 1)
            THEN [ leaderboard |-> board, user_score |-> s2 ]
            ELSE [ leaderboard |-> b1, user_score |-> s3 ]
    IN  IF overflow_checks /\ panics
        THEN [ result |-> "Overflow", leaderboard |-> aborted.leaderboard,
               user_score |-> aborted.user_score, emitted |-> << >> ]
        ELSE [ result |-> "Ok", leaderboard |-> b2, user_score |-> s3,
               emitted |-> << [ user |-> user,
                                score_added |-> score_u64,
                                new_total_score |-> score_rec.total_score,
                                new_best_score |-> s3.best_single_score,
                                timestamp |-> s3.last_submission_time ] >> ]

pullups_submit_score_last_is_best(board, score_rec, user, score) ==
    LET score_u64 == U32AsU64(score)
        is_new_user == score_rec.submission_count = 0
        panics == \/ Overflows(score_rec.total_score, score_u64)
                  \/ Overflows(score_rec.submission_count, 1)
                  \/ (is_new_user /\ Overflows(board.total_participants, 1))
                  \/ Overflows(board.total_submissions, 1)
        s1 == [ score_rec EXCEPT !.user = user,
                                 !.total_score = WrappingAdd(@, score_u64),
                                 !.submission_count = WrappingAdd(@, 1),
                                 !.last_submission_time = I64AsU64(now) ]
        s2 == IF is_new_user
              THEN [ s1 EXCEPT !.first_submission_time = I64AsU64(now) ]
              ELSE s1
        b1 == IF is_new_user
              THEN [ board EXCEPT !.total_participants = WrappingAdd(@, 1) ]
              ELSE board
        s3 == [ s2 EXCEPT !.best_single_score = score_u64 ]
        b2 == [ b1 EXCEPT !.total_submissions = WrappingAdd(@, 1) ]
        named == [ score_rec EXCEPT !.user = user ]
        aborted ==
            IF Overflows(score_rec.total_score, score_u64)
            THEN [ leaderboard |-> board, user_score |-> named ]
            ELSE IF Overflows(score_rec.submission_count, 1)
            THEN [ leaderboard |-> board,
                   user_score |-> [ named EXCEPT !.total_score = WrappingAdd(@, score_u64) ] ]
            ELSE IF is_new_user /\ Overflows(board.total_participants, 1)
            THEN [ leaderboard |-> board, user_score |-> s2 ]
            ELSE [ leaderboard |-> b1, user_score |-> s3 ]
    IN  IF overflow_checks /\ panics
        THEN [ result |-> "Overflow", leaderboard |-> aborted.leaderboard,
               user_score |-> aborted.user_score, emitted |-> << >> ]
        ELSE [ result |-> "Ok", leaderboard |-> b2, user_score |-> s3,
               emitted |-> << [ user |-> user,
                                score_added |-> score_u64,
                                new_total_score |-> s3.total_score,
                                new_best_score |-> s3.best_single_score,
                                timestamp |-> s3.last_submission_time ] >> ]

\* handler body of submit_score.  Every `+=` panics on overflow in a build with
\* overflow checks and wraps in a build without.  A panic leaves in the handler's
\* hands the accounts as written up to the addition that panicked (`aborted`);
\* the event is emitted last, so a panic emits none.
pullups_submit_score(board, score_rec, user, score) ==
    LET score_u64 == U32AsU64(score)
        is_new_user == score_rec.submission_count = 0
        panics == \/ Overflows(score_rec.total_score, score_u64)
                  \/ Overflows(score_rec.submission_count, 1)
                  \/ (is_new_user /\ Overflows(board.total_participants, 1))
                  \/ Overflows(board.total_submissions, 1)
        s1 == [ score_rec EXCEPT !.user = user,
                                 !.total_score = WrappingAdd(@, score_u64),
                                 !.submission_count = WrappingAdd(@, 1),
                                 !.last_submission_time = I64AsU64(now) ]
        s2 == IF is_new_user
              THEN [ s1 EXCEPT !.first_submission_time = I64AsU64(now) ]
              ELSE s1
        b1 == IF is_new_user
              THEN [ board EXCEPT !.total_participants = WrappingAdd(@, 1) ]
              ELSE board
        s3 == IF score_u64 > s2.best_single_score
              THEN [ s2 EXCEPT !.best_single_score = score_u64 ]
              ELSE s2
        b2 == [ b1 EXCEPT !.total_submissions = WrappingAdd(@, 1) ]
        named == [ score_rec EXCEPT !.user = user ]
        aborted ==
            IF Overflows(score_rec.total_score, score_u64)
            THEN [ leaderboard |-> board, user_score |-> named ]
            ELSE IF Overflows(score_rec.submission_count, 1)
            THEN [ leaderboard |-> board,
                   user_score |-> [ named EXCEPT !.total_score = WrappingAdd(@, score_u64) ] ]
            ELSE IF is_new_user /\ Overflows(board.total_participants, 1)
            THEN [ leaderboard |-> board, user_score |-> s2 ]
            ELSE [ leaderboard |-> b1, user_score |-> s3 ]
    IN  IF overflow_checks /\ panics
        THEN [ result |-> "Overflow", leaderboard |-> aborted.leaderboard,
               user_score |-> aborted.user_score, emitted |-> << >> ]
        ELSE [ result |-> "Ok", leaderboard |-> b2, user_score |-> s3,
               emitted |-> << [ user |-> user,
                                score_added |-> score_u64,
                                new_total_score |-> s3.total_score,
                                new_best_score |-> s3.best_single_score,
                                timestamp |-> s3.last_submission_time ] >> ]

\* instruction initialize
PullupsInitialize(lb) ==
    LET res == PullupsInitializeAccounts(lb)
    IN  /\ pullups_leaderboard' = IF res = "Ok"
                                  THEN (lb :> pullups_initialize(ZeroedLeaderboard))
                                           @@ pullups_leaderboard
                                  ELSE pullups_leaderboard
        /\ last' = [ op |-> "initialize", result |-> res ]
        /\ UNCHANGED <<env_vars, registry_vars, pullups_user_score, pullups_events,
                       combined_vars, accepted>>

PullupsSubmitScore_no_rollback(user, lb, account, score) ==
    LET ctx == PullupsSubmitScoreAccounts(lb, account, user)
        loaded == IF account \in DOMAIN pullups_user_score
                  THEN pullups_user_score[account]
                  ELSE ZeroedPullupsUserScore
        out == pullups_submit_score(pullups_leaderboard[lb], loaded, user, score)
        res == IF ctx = "Ok" THEN out.result ELSE ctx
    IN  /\ IF ctx = "Ok"
           THEN /\ pullups_leaderboard' = [ pullups_leaderboard EXCEPT ![lb] = out.leaderboard ]
                /\ pullups_user_score' = (account :> out.user_score) @@ pullups_user_score
                /\ pullups_events' = pullups_events \o out.emitted
                /\ accepted' = IF res = "Ok"
                               THEN Append(accepted,
                                        [ program |-> "pullups", leaderboard |-> lb,
                                          user |-> user, account |-> account,
                                          score |-> U32AsU64(score) ])
                               ELSE accepted
           ELSE UNCHANGED <<pullups_vars, accepted>>
        /\ last' = [ op |-> "submit_score", result |-> res ]
        /\ UNCHANGED <<env_vars, registry_vars, combined_vars>>

\* instruction submit_score
PullupsSubmitScore(user, lb, account, score) ==
    LET ctx == PullupsSubmitScoreAccounts(lb, account, user)
        loaded == IF account \in DOMAIN pullups_user_score
                  THEN pullups_user_score[account]
                  ELSE ZeroedPullupsUserScore
        out == pullups_submit_score(pullups_leaderboard[lb], loaded, user, score)
        res == IF ctx = "Ok" THEN out.result ELSE ctx
    IN  /\ IF res = "Ok"
           THEN /\ pullups_leaderboard' = [ pullups_leaderboard EXCEPT ![lb] = out.leaderboard ]
                /\ pullups_user_score' = (account :> out.user_score) @@ pullups_user_score
                /\ pullups_events' = pullups_events \o out.emitted
                /\ accepted' = Append(accepted,
                                   [ program |-> "pullups", leaderboard |-> lb, user |-> user,
                                     account |-> account, score |-> U32AsU64(score) ])
           ELSE UNCHANGED <<pullups_vars, accepted>>
        /\ last' = [ op |-> "submit_score", result |-> res ]
        /\ UNCHANGED <<env_vars, registry_vars, combined_vars>>

(***************************************************************************)
(* Combined leaderboard: SolanaLeaderboard.rs                              *)
(***************************************************************************)
ExerciseNames == {"jumps"}

\* seeds = [b"user_score", user.key().as_ref()]
UserScorePda(user) == <<"user_score", user>>

UserScoreAddrs == { UserScorePda(u) : u \in Users }

ZeroedUserScore ==
    [ user |-> DefaultPubkey, total_score |-> 0, best_single_score |-> 0, pullups |-> 0,
      jumps |-> 0, submission_count |-> 0, last_submission_time |-> 0,
      first_submission_time |-> 0 ]

\* #[derive(Accounts)] Initialize: `init` of the leaderboard account
InitializeAccounts(lb) ==
    IF lb \in DOMAIN leaderboard THEN "AlreadyExists" ELSE "Ok"

\* handler body of initialize
initialize(board, exercise_name) ==
    [ board EXCEPT !.exercise_name = exercise_name,
                   !.total_participants = 0,
                   !.total_submissions = 0 ]

\* #[derive(Accounts)] SubmitScore: leaderboard and user_score must both exist
\* (Account<..> without init), and user_score must be the PDA of the user.
SubmitScoreAccounts(lb, account, user) ==
    IF lb \notin DOMAIN leaderboard THEN "NotFound"
    ELSE IF account \notin DOMAIN user_score THEN "NotFound"
    ELSE IF account # UserScorePda(user) THEN "ConstraintSeeds"
    ELSE "Ok"

\* handler body of submit_score; `aborted` as in the pullups program
submit_score(board, score_rec, user, pullups, jumps) ==
    LET score == U32AsU64(pullups) + U32AsU64(jumps)
        is_new_user == score_rec.submission_count = 0
        panics == \/ Overflows(U32AsU64(pullups), U32AsU64(jumps))
                  \/ Overflows(score_rec.total_score, score)
                  \/ Overflows(score_rec.pullups, U32AsU64(pullups))
                  \/ Overflows(score_rec.jumps, U32AsU64(jumps))
                  \/ Overflows(score_rec.submission_count, 1)
                  \/ (is_new_user /\ Overflows(board.total_participants, 1))
                  \/ Overflows(board.total_submissions, 1)
        s1 == [ score_rec EXCEPT !.user = user,
                                 !.total_score = WrappingAdd(@, score),
                                 !.pullups = WrappingAdd(@, U32AsU64(pullups)),
                                 !.jumps = WrappingAdd(@, U32AsU64(jumps)),
                                 !.submission_count = WrappingAdd(@, 1),
                                 !.last_submission_time = I64AsU64(now) ]
        s2 == IF is_new_user
              THEN [ s1 EXCEPT !.first_submission_time = I64AsU64(now) ]
              ELSE s1
        b1 == IF is_new_user
              THEN [ board EXCEPT !.total_participants = WrappingAdd(@, 1) ]
              ELSE board
        s3 == IF score > s2.best_single_score
              THEN [ s2 EXCEPT !.best_single_score = score ]
              ELSE s2
        b2 == [ b1 EXCEPT !.total_submissions = WrappingAdd(@, 1) ]
        named == [ score_rec EXCEPT !.user = user ]
        summed == [ named EXCEPT !.total_score = WrappingAdd(@, score) ]
        with_pullups == [ summed EXCEPT !.pullups = WrappingAdd(@, U32AsU64(pullups)) ]
        with_jumps == [ with_pullups EXCEPT !.jumps = WrappingAdd(@, U32AsU64(jumps)) ]
        aborted ==
            IF Overflows(U32AsU64(pullups), U32AsU64(jumps))
            THEN [ leaderboard |-> board, user_score |-> score_rec ]
            ELSE IF Overflows(score_rec.total_score, score)
            THEN [ leaderboard |-> board, user_score |-> named ]
            ELSE IF Overflows(score_rec.pullups, U32AsU64(pullups))
            THEN [ leaderboard |-> board, user_score |-> summed ]
            ELSE IF Overflows(score_rec.jumps, U32AsU64(jumps))
            THEN [ leaderboard |-> board, user_score |-> with_pullups ]
            ELSE IF Overflows(score_rec.submission_count, 1)
            THEN [ leaderboard |-> board, user_score |-> with_jumps ]
            ELSE IF is_new_user /\ Overflows(board.total_participants, 1)
            THEN [ leaderboard |-> board, user_score |-> s2 ]
            ELSE [ leaderboard |-> b1, user_score |-> s3 ]
    IN  IF overflow_checks /\ panics
        THEN [ result |-> "Overflow", leaderboard |-> aborted.leaderboard,
               user_score |-> aborted.user_score, emitted |-> << >> ]
        ELSE [ result |-> "Ok", leaderboard |-> b2, user_score |-> s3,
               emitted |-> << [ user |-> user,
                                score_added |-> score,
                                new_total_score |-> s3.total_score,
                                new_best_score |-> s3.best_single_score,
                                timestamp |-> s3.last_submission_time ] >> ]

\* instruction initialize
Initialize(lb, exercise_name) ==
    LET res == InitializeAccounts(lb)
    IN  /\ leaderboard' = IF res = "Ok"
                          THEN (lb :> initialize(ZeroedLeaderboard, exercise_name)) @@ leaderboard
                          ELSE leaderboard
        /\ last' = [ op |-> "initialize", result |-> res ]
        /\ UNCHANGED <<env_vars, registry_vars, pullups_vars, user_score, events, accepted>>

\* The program has no instruction that creates a UserScore account, and its
\* SubmitScore context does not create one either.  The creation the submitter is
\* required to have done beforehand: a zeroed UserScore at the PDA of the signer,
\* refused when the address is already in use.
InitializeUserScore(user, account) ==
    LET res == IF account # UserScorePda(user) THEN "ConstraintSeeds"
               ELSE IF account \in DOMAIN user_score THEN "AlreadyExists"
               ELSE "Ok"
    IN  /\ user_score' = IF res = "Ok"
                         THEN (account :> ZeroedUserScore) @@ user_score
                         ELSE user_score
        /\ last' = [ op |-> "initialize_user_score", result |-> res ]
        /\ UNCHANGED <<env_vars, registry_vars, pullups_vars, leaderboard, events, accepted>>

SubmitScore_init_if_needed(user, lb, account, pullups, jumps) ==
    LET ctx == IF lb \notin DOMAIN leaderboard THEN "NotFound"
               ELSE IF account # UserScorePda(user) THEN "ConstraintSeeds"
               ELSE "Ok"
        loaded == IF account \in DOMAIN user_score THEN user_score[account] ELSE ZeroedUserScore
        out == submit_score(leaderboard[lb], loaded, user, pullups, jumps)
        res == IF ctx = "Ok" THEN out.result ELSE ctx
    IN  /\ IF res = "Ok"
           THEN /\ leaderboard' = [ leaderboard EXCEPT ![lb] = out.leaderboard ]
                /\ user_score' = (account :> out.user_score) @@ user_score
                /\ events' = events \o out.emitted
                /\ accepted' = Append(accepted,
                                   [ program |-> "combined", leaderboard |-> lb, user |-> user,
                                     account |-> account,
                                     score |-> U32AsU64(pullups) + U32AsU64(jumps) ])
           ELSE UNCHANGED <<combined_vars, accepted>>
        /\ last' = [ op |-> "submit_score", result |-> res ]
        /\ UNCHANGED <<env_vars, registry_vars, pullups_vars>>

\* instruction submit_score
SubmitScore(user, lb, account, pullups, jumps) ==
    LET ctx == SubmitScoreAccounts(lb, account, user)
        out == submit_score(leaderboard[lb], user_score[account], user, pullups, jumps)
        res == IF ctx = "Ok" THEN out.result ELSE ctx
    IN  /\ IF res = "Ok"
           THEN /\ leaderboard' = [ leaderboard EXCEPT ![lb] = out.leaderboard ]
                /\ user_score' = [ user_score EXCEPT ![account] = out.user_score ]
                /\ events' = events \o out.emitted
                /\ accepted' = Append(accepted,
                                   [ program |-> "combined", leaderboard |-> lb, user |-> user,
                                     account |-> account,
                                     score |-> U32AsU64(pullups) + U32AsU64(jumps) ])
           ELSE UNCHANGED <<combined_vars, accepted>>
        /\ last' = [ op |-> "submit_score", result |-> res ]
        /\ UNCHANGED <<env_vars, registry_vars, pullups_vars>>

(***************************************************************************)
(* Clock                                                                   *)
(***************************************************************************)
\* the cluster clock advances between transactions and never runs backwards
Tick ==
    /\ now < MaxTime
    /\ now' = now + 1
    /\ UNCHANGED <<overflow_checks, agent_profile, pullups_vars, combined_vars, accepted, last>>

(***************************************************************************)
(* Specifications                                                          *)
(***************************************************************************)
Init ==
    /\ overflow_checks \in BOOLEAN
    /\ now = 0
    /\ agent_profile = << >>
    /\ pullups_leaderboard = << >>
    /\ pullups_user_score = << >>
    /\ pullups_events = << >>
    /\ leaderboard = << >>
    /\ user_score = << >>
    /\ events = << >>
    /\ accepted = << >>
    /\ last = [ op |-> "none", result |-> "Ok" ]

RegistryNext ==
    \/ \E k \in Keys, a \in AgentProfileAddrs, args \in RegisterArgs : RegisterAgent(k, a, args)
    \/ \E k \in Keys, a \in AgentProfileAddrs, fee \in BaseFees, mint \in Mints :
           UpdatePricing(k, a, fee, mint)
    \/ \E k \in Keys, a \in AgentProfileAddrs, success \in BOOLEAN :
           ReportJobCompletion(k, a, success)
    \/ Tick

SpecRegistry == Init /\ [][RegistryNext]_vars

PullupsNext ==
    \/ \E l \in LeaderboardKeys : PullupsInitialize(l)
    \/ \E u \in Users, l \in LeaderboardKeys, a \in PullupsUserScoreAddrs, x \in U32Values :
           /\ Len(accepted) < MaxEvents
           /\ PullupsSubmitScore(u, l, a, x)
    \/ Tick

SpecPullups == Init /\ [][PullupsNext]_vars

\* one user on one leaderboard, followed for MaxEventsLong accepted submissions
PullupsLongNext ==
    \/ PullupsInitialize("L1")
    \/ \E x \in U32Values :
           /\ Len(accepted) < MaxEventsLong
           /\ PullupsSubmitScore("U1", "L1", PullupsUserScorePda("L1", "U1"), x)
    \/ Tick

SpecPullupsLong == Init /\ [][PullupsLongNext]_vars

CombinedNext ==
    \/ \E l \in LeaderboardKeys, n \in ExerciseNames : Initialize(l, n)
    \/ \E u \in Users, a \in UserScoreAddrs : InitializeUserScore(u, a)
    \/ \E u \in Users, l \in LeaderboardKeys, a \in UserScoreAddrs, p \in U32Values,
           j \in U32Values :
           /\ Len(accepted) < MaxEvents
           /\ SubmitScore(u, l, a, p, j)
    \/ Tick

SpecCombined == Init /\ [][CombinedNext]_vars

\* The three programs own disjoint accounts, so a run of the deployment is a run of
\* each program on its own accounts.  The specifications below follow one program
\* per run: a program is taken up only while the accounts of the others are untouched.
RegistryIdle == agent_profile = << >>
PullupsIdle == pullups_leaderboard = << >> /\ pullups_user_score = << >>
CombinedIdle == leaderboard = << >> /\ user_score = << >>

\* the pullups program with one leaderboard, every user submitting to the score
\* record derived for them
PullupsBoardNext ==
    \/ PullupsInitialize("L1")
    \/ \E u \in Users, x \in U32Values :
           /\ Len(accepted) < MaxBoardEvents
           /\ PullupsSubmitScore(u, "L1", PullupsUserScorePda("L1", u), x)

\* the combined program with one leaderboard, every user submitting to the score
\* record derived for them
CombinedBoardNext ==
    \/ \E n \in ExerciseNames : Initialize("L1", n)
    \/ \E u \in Users : InitializeUserScore(u, UserScorePda(u))
    \/ \E u \in Users, p \in U32Values, j \in U32Values :
           /\ Len(accepted) < MaxBoardEvents
           /\ SubmitScore(u, "L1", UserScorePda(u), p, j)

LeaderboardsNext ==
    \/ CombinedIdle /\ PullupsBoardNext
    \/ CombinedIdle /\ PullupsLongNext
    \/ PullupsIdle /\ CombinedBoardNext
    \/ Tick

SpecLeaderboards == Init /\ [][LeaderboardsNext]_vars

\* the leaderboards within one clock reading
BoardsNext ==
    \/ CombinedIdle /\ PullupsBoardNext
    \/ PullupsIdle /\ CombinedBoardNext

SpecBoards == Init /\ [][BoardsNext]_vars

\* every program, one per run
ProgramsNext ==
    \/ PullupsIdle /\ CombinedIdle /\ RegistryNext
    \/ RegistryIdle /\ LeaderboardsNext

SpecPrograms == Init /\ [][ProgramsNext]_vars

Next == RegistryNext \/ PullupsNext \/ CombinedNext

Spec == Init /\ [][Next]_vars

(***************************************************************************)
(* Claims about the agent registry (checked under SpecRegistry)            *)
(***************************************************************************)
\* C4: register_agent signed by an authority whose derived address already holds
\* an AgentProfile is rejected with AlreadyExists and leaves every field of the
\* existing profile as it was.
C4_ReRegisterRejected ==
    [][ \A k \in Keys, args \in RegisterArgs :
            ( /\ AgentProfilePda(k) \in DOMAIN agent_profile
              /\ RegisterAgent(k, AgentProfilePda(k), args) )
            => ( /\ last'.result = "AlreadyExists"
                 /\ AgentProfilePda(k) \in DOMAIN agent_profile'
                 /\ agent_profile'[AgentProfilePda(k)] = agent_profile[AgentProfilePda(k)] )
      ]_vars

\* a re-registration has just been refused at an address that holds a profile
C4_Witness ==
    /\ last.op = "register_agent"
    /\ last.result = "AlreadyExists"
    /\ last.account \in DOMAIN agent_profile

\* C5 (as claimed): update_pricing signed by a key other than the authority stored
\* in the profile it names fails with Unauthorized, and base_fee and asset_mint of
\* that profile are unchanged.
C5_ForeignCallerGetsUnauthorized ==
    [][ \A k \in Keys, a \in AgentProfileAddrs, fee \in BaseFees, mint \in Mints :
            ( /\ a \in DOMAIN agent_profile
              /\ agent_profile[a].authority # k
              /\ UpdatePricing(k, a, fee, mint) )
            => ( /\ last'.result = "Unauthorized"
                 /\ agent_profile'[a].base_fee = agent_profile[a].base_fee
                 /\ agent_profile'[a].asset_mint = agent_profile[a].asset_mint )
      ]_vars

\* C6: reputation_score never exceeds u64::MAX and never wraps (no step lowers
\* it): an accepted report with success = true adds one, and leaves a score of
\* u64::MAX at u64::MAX.
C6_ReputationSaturates ==
    [][ /\ \A a \in DOMAIN agent_profile :
               /\ agent_profile'[a].reputation_score \in 0..U64Max
               /\ agent_profile'[a].reputation_score >= agent_profile[a].reputation_score
        /\ \A k \in Keys, a \in AgentProfileAddrs :
               ( /\ a \in DOMAIN agent_profile
                 /\ ReportJobCompletion(k, a, TRUE)
                 /\ last'.result = "Ok" )
               => agent_profile'[a].reputation_score =
                      IF agent_profile[a].reputation_score = U64Max
                      THEN U64Max
                      ELSE agent_profile[a].reputation_score + 1
      ]_vars

\* an accepted successful report found the score at u64::MAX and left it there
C6_Witness ==
    /\ last.op = "report_job_completion"
    /\ last.result = "Ok"
    /\ last.success
    /\ last.reputation_before = U64Max
    /\ agent_profile[last.account].reputation_score = U64Max

\* C7 (as claimed): in every step, for every profile, reputation_score and
\* total_jobs do not decrease, whatever their value up to u64::MAX.
C7_CountersNeverDecrease ==
    [][ \A a \in DOMAIN agent_profile :
            /\ a \in DOMAIN agent_profile'
            /\ agent_profile'[a].reputation_score >= agent_profile[a].reputation_score
            /\ agent_profile'[a].total_jobs >= agent_profile[a].total_jobs
      ]_vars

\* C9: once a profile exists, no instruction by any signer changes its authority
\* or its registered_at.
C9_AuthorityAndRegisteredAtFrozen ==
    [][ \A a \in DOMAIN agent_profile :
            /\ a \in DOMAIN agent_profile'
            /\ agent_profile'[a].authority = agent_profile[a].authority
            /\ agent_profile'[a].registered_at = agent_profile[a].registered_at
      ]_vars

\* a profile registered earlier has been priced and reported on, the clock has moved
\* on, and a further register_agent naming it has just been processed
C9_Witness ==
    /\ last.op = "register_agent"
    /\ last.account \in DOMAIN agent_profile
    /\ agent_profile[last.account].registered_at < now
    /\ agent_profile[last.account].total_jobs > 0
    /\ agent_profile[last.account].base_fee > 0

\* C15: an accepted update_pricing(base_fee, asset_mint) names the profile of its
\* signer, sets base_fee and asset_mint of that profile to the given values and
\* leaves every other field of it, and every other profile, unchanged.
C15_UpdatePricingFrame ==
    [][ \A k \in Keys, a \in AgentProfileAddrs, fee \in BaseFees, mint \in Mints :
            ( UpdatePricing(k, a, fee, mint) /\ last'.result = "Ok" )
            => /\ a = AgentProfilePda(k)
               /\ a \in DOMAIN agent_profile
               /\ agent_profile' =
                      [ agent_profile EXCEPT ![a] = [ @ EXCEPT !.base_fee = fee,
                                                               !.asset_mint = mint ] ]
      ]_vars

\* a profile with jobs and reputation on record has just been priced, next to a
\* second profile
C15_Witness ==
    /\ last.op = "update_pricing"
    /\ last.result = "Ok"
    /\ Cardinality(DOMAIN agent_profile) = 2
    /\ agent_profile[last.account].base_fee \in BaseFees
    /\ agent_profile[last.account].asset_mint \in Mints
    /\ agent_profile[last.account].reputation_score > 0
    /\ agent_profile[last.account].total_jobs > agent_profile[last.account].reputation_score

\* C16 (as claimed): report_job_completion naming an existing profile is accepted
\* from every signer, the authority or not; it adds exactly one to total_jobs
\* whatever success is, adds one (saturating) to reputation_score only when
\* success is true, and changes no other field of the profile.
C16_ReportAcceptedAndCounted ==
    [][ \A k \in Keys, a \in AgentProfileAddrs, success \in BOOLEAN :
            ( a \in DOMAIN agent_profile /\ ReportJobCompletion(k, a, success) )
            => /\ last'.result = "Ok"
               /\ agent_profile' =
                      [ agent_profile EXCEPT ![a] =
                          [ @ EXCEPT !.total_jobs = @ + 1,
                                     !.reputation_score =
                                         IF ~success THEN @
                                         ELSE IF @ = U64Max THEN U64Max ELSE @ + 1 ] ]
      ]_vars

\* C18 (as claimed): every profile has reputation_score <= total_jobs in every
\* reachable state, total_jobs at u64::MAX and beyond included.
C18_ReputationAtMostJobs ==
    \A a \in DOMAIN agent_profile :
        agent_profile[a].reputation_score <= agent_profile[a].total_jobs

\* C20: there is one profile per authority: the profile at the address derived from
\* a key stores that key as its authority, and no other address holds a profile of
\* that authority; so an update_pricing that passes the seeds check for its signer
\* passes has_one and the handler's own comparison as well.
C20_OneProfilePerAuthority ==
    /\ \A a \in DOMAIN agent_profile :
           a = AgentProfilePda(agent_profile[a].authority)
    /\ \A a \in DOMAIN agent_profile, b \in DOMAIN agent_profile :
           agent_profile[a].authority = agent_profile[b].authority => a = b
    /\ \A k \in Keys, a \in DOMAIN agent_profile, fee \in BaseFees, mint \in Mints :
           a = AgentProfilePda(k)
               => /\ UpdateAgentAccounts(a, k) = "Ok"
                  /\ update_pricing(agent_profile[a], k, fee, mint).result = "Ok"

\* both keys have registered, and a signer's update_pricing naming its own
\* profile has just got through
C20_Witness ==
    /\ Cardinality(DOMAIN agent_profile) = Cardinality(Keys)
    /\ last.op = "update_pricing"
    /\ last.result = "Ok"
    /\ agent_profile[last.account].registered_at > 0

(***************************************************************************)
(* Claims about every program (checked under SpecPrograms)                 *)
(***************************************************************************)
\* C11: an instruction that is rejected (AlreadyExists, NotFound, a failed
\* constraint or guard, an arithmetic abort) leaves every AgentProfile, Leaderboard
\* and UserScore account as it was, creates none, and appends no notification.
C11_NoPartialCommit ==
    [][ last'.result # "Ok"
            => UNCHANGED <<agent_profile, pullups_leaderboard, pullups_user_score,
                           pullups_events, leaderboard, user_score, events>>
      ]_vars

\* a submission has just been aborted by the addition to submission_count, after
\* the handler had already added the score to total_score
C11_Witness ==
    /\ last.op = "submit_score"
    /\ last.result = "Overflow"
    /\ \E a \in DOMAIN pullups_user_score :
           /\ pullups_user_score[a].submission_count = U64Max
           /\ pullups_user_score[a].total_score < U64Max

(***************************************************************************)
(* Claims about the leaderboards, one leaderboard per program (checked     *)
(* under SpecLeaderboards, or SpecBoards where the clock plays no part)    *)
(***************************************************************************)
\* C12: in the combined program a submit_score whose UserScore account does not
\* exist fails with NotFound, creates no record and leaves the leaderboard (its
\* total_participants and total_submissions) unchanged; a submission is accepted
\* only when the record of the submitter already exists.
C12_MissingRecordIsNotFound ==
    [][ \A u \in Users, l \in LeaderboardKeys, p \in U32Values, j \in U32Values :
            LET a == UserScorePda(u) IN
            ( a \notin DOMAIN user_score /\ SubmitScore(u, l, a, p, j) )
                => /\ last'.result = "NotFound"
                   /\ a \notin DOMAIN user_score'
                   /\ leaderboard' = leaderboard
                   /\ accepted' = accepted
      ]_vars

\* a leaderboard that has taken submissions has just refused, with NotFound, the
\* submission of a user who has no record
C12_Witness ==
    /\ last.op = "submit_score"
    /\ last.result = "NotFound"
    /\ "L1" \in DOMAIN leaderboard
    /\ leaderboard["L1"].total_submissions > 0
    /\ \E u \in Users : UserScorePda(u) \notin DOMAIN user_score

\* C13: every UserScore record, in both programs, that has submission_count > 0
\* has first_submission_time <= last_submission_time (the clock never runs back).
C13_FirstNotAfterLast ==
    /\ \A a \in DOMAIN pullups_user_score :
           pullups_user_score[a].submission_count > 0
               => pullups_user_score[a].first_submission_time
                      <= pullups_user_score[a].last_submission_time
    /\ \A a \in DOMAIN user_score :
           user_score[a].submission_count > 0
               => user_score[a].first_submission_time <= user_score[a].last_submission_time

\* a record that took its first submission before the clock moved on and a further
\* one after
C13_Witness ==
    \E a \in DOMAIN user_score :
        /\ user_score[a].submission_count > 1
        /\ user_score[a].first_submission_time < user_score[a].last_submission_time

\* C14 (as claimed): a UserScore record is created by the first accepted submission
\* to its address (pullups program) or by its explicit initialization (combined
\* program); once it exists every step leaves it in existence, and no step takes a
\* counter of it that is above zero back to zero.
C14_RecordNeverResets ==
    [][ /\ \A u \in Users, l \in LeaderboardKeys, x \in U32Values :
               ( /\ PullupsSubmitScore(u, l, PullupsUserScorePda(l, u), x)
                 /\ last'.result = "Ok" )
               => PullupsUserScorePda(l, u) \in DOMAIN pullups_user_score'
        /\ \A u \in Users :
               ( InitializeUserScore(u, UserScorePda(u)) /\ last'.result = "Ok" )
               => UserScorePda(u) \in DOMAIN user_score'
        /\ \A a \in DOMAIN pullups_user_score :
               /\ a \in DOMAIN pullups_user_score'
               /\ pullups_user_score[a].submission_count > 0
                      => pullups_user_score'[a].submission_count > 0
               /\ pullups_user_score[a].total_score > 0
                      => pullups_user_score'[a].total_score > 0
        /\ \A a \in DOMAIN user_score :
               /\ a \in DOMAIN user_score'
               /\ user_score[a].submission_count > 0 => user_score'[a].submission_count > 0
               /\ user_score[a].total_score > 0 => user_score'[a].total_score > 0
               /\ user_score[a].pullups > 0 => user_score'[a].pullups > 0
               /\ user_score[a].jumps > 0 => user_score'[a].jumps > 0
      ]_vars

\* C17: the notification logs are append-only and hold one ScoreSubmitted entry
\* per accepted submit_score, in the order of acceptance: the step that accepts a
\* submission appends to the log of its program one entry carrying its user, the
\* score it added, and total_score, best_single_score and last_submission_time of
\* the record as that submission leaves them; no other step changes a log.
C17_OneEventPerAcceptedSubmission ==
    [][ IF accepted' = accepted
        THEN pullups_events' = pullups_events /\ events' = events
        ELSE LET e == accepted'[Len(accepted')] IN
             /\ accepted' = Append(accepted, e)
             /\ e.program = "pullups"
                    => /\ events' = events
                       /\ pullups_events' =
                              Append(pullups_events,
                                     [ user |-> e.user,
                                       score_added |-> e.score,
                                       new_total_score |->
                                           pullups_user_score'[e.account].total_score,
                                       new_best_score |->
                                           pullups_user_score'[e.account].best_single_score,
                                       timestamp |->
                                           pullups_user_score'[e.account].last_submission_time ])
             /\ e.program = "combined"
                    => /\ pullups_events' = pullups_events
                       /\ events' =
                              Append(events,
                                     [ user |-> e.user,
                                       score_added |-> e.score,
                                       new_total_score |-> user_score'[e.account].total_score,
                                       new_best_score |->
                                           user_score'[e.account].best_single_score,
                                       timestamp |->
                                           user_score'[e.account].last_submission_time ])
      ]_vars

\* the log of the pullups program holds a second entry whose total is the sum of
\* two scores and whose timestamp is that of the later submission
C17_Witness ==
    /\ last.op = "submit_score"
    /\ last.result = "Ok"
    /\ Len(pullups_events) = 2
    /\ pullups_events[1].score_added = 1
    /\ pullups_events[1].timestamp = 0
    /\ pullups_events[2].score_added = 1
    /\ pullups_events[2].new_total_score = 2
    /\ pullups_events[2].timestamp > 0

\* A leaderboard and its score records taken aside, for applying submit_score to
\* them in an order of one's choosing: `ok` is FALSE once a submission was rejected.
PullupsWorld(l) ==
    [ ok |-> TRUE, leaderboard |-> pullups_leaderboard[l], user_score |-> pullups_user_score ]

PullupsApply(w, l, u, x) ==
    LET a == PullupsUserScorePda(l, u)
        loaded == IF a \in DOMAIN w.user_score THEN w.user_score[a] ELSE ZeroedPullupsUserScore
        out == pullups_submit_score(w.leaderboard, loaded, u, x)
    IN  IF w.ok /\ PullupsSubmitScoreAccounts(l, a, u) = "Ok" /\ out.result = "Ok"
        THEN [ ok |-> TRUE, leaderboard |-> out.leaderboard,
               user_score |-> (a :> out.user_score) @@ w.user_score ]
        ELSE [ w EXCEPT !.ok = FALSE ]

CombinedWorld(l) ==
    [ ok |-> TRUE, leaderboard |-> leaderboard[l], user_score |-> user_score ]

CombinedApply(w, l, u, p, j) ==
    LET a == UserScorePda(u)
        out == submit_score(w.leaderboard, w.user_score[a], u, p, j)
    IN  IF w.ok /\ SubmitScoreAccounts(l, a, u) = "Ok" /\ out.result = "Ok"
        THEN [ ok |-> TRUE, leaderboard |-> out.leaderboard,
               user_score |-> [ w.user_score EXCEPT ![a] = out.user_score ] ]
        ELSE [ w EXCEPT !.ok = FALSE ]

\* what the claim compares: the counters, without the timestamps
PullupsCounters(w) ==
    [ total_participants |-> w.leaderboard.total_participants,
      total_submissions |-> w.leaderboard.total_submissions,
      users |-> [ a \in DOMAIN w.user_score |->
                    << w.user_score[a].total_score, w.user_score[a].best_single_score,
                       w.user_score[a].submission_count >> ] ]

CombinedCounters(w) ==
    [ total_participants |-> w.leaderboard.total_participants,
      total_submissions |-> w.leaderboard.total_submissions,
      users |-> [ a \in DOMAIN w.user_score |->
                    << w.user_score[a].total_score, w.user_score[a].best_single_score,
                       w.user_score[a].pullups, w.user_score[a].jumps,
                       w.user_score[a].submission_count >> ] ]

\* the accepted submissions h applied latest first
RECURSIVE PullupsReplayReversed(_, _, _)
PullupsReplayReversed(w, l, h) ==
    IF h = << >> THEN w
    ELSE PullupsReplayReversed(PullupsApply(w, l, h[Len(h)].user, h[Len(h)].score),
                               l, SubSeq(h, 1, Len(h) - 1))

\* C19: aggregation does not depend on the order of the submissions.  From every
\* reachable state, two submissions to the same leaderboard (by the same user or
\* by different users) are accepted in one order exactly when they are in the
\* other, and then both orders leave the same leaderboard counters and the same
\* per-user counters; and the counters a pullups leaderboard and its records hold
\* are those the accepted submissions give when applied latest first.
C19_OrderIndependent ==
    /\ \A l \in DOMAIN pullups_leaderboard, u1 \in Users, x1 \in U32Values :
           LET a == PullupsApply(PullupsWorld(l), l, u1, x1) IN
           \A u2 \in Users, x2 \in U32Values :
               LET ab == PullupsApply(a, l, u2, x2)
                   ba == PullupsApply(PullupsApply(PullupsWorld(l), l, u2, x2), l, u1, x1)
               IN  /\ ab.ok = ba.ok
                   /\ ab.ok => PullupsCounters(ab) = PullupsCounters(ba)
    /\ \A l \in DOMAIN leaderboard, u1 \in Users, p1 \in U32Values, j1 \in U32Values :
           LET a == CombinedApply(CombinedWorld(l), l, u1, p1, j1) IN
           \A u2 \in Users, p2 \in U32Values, j2 \in U32Values :
               LET ab == CombinedApply(a, l, u2, p2, j2)
                   ba == CombinedApply(CombinedApply(CombinedWorld(l), l, u2, p2, j2),
                                       l, u1, p1, j1)
               IN  /\ ab.ok = ba.ok
                   /\ ab.ok => CombinedCounters(ab) = CombinedCounters(ba)
    /\ \A l \in DOMAIN pullups_leaderboard :
           LET start == [ ok |-> TRUE, leaderboard |-> pullups_initialize(ZeroedLeaderboard),
                          user_score |-> << >> ]
               reversed == PullupsReplayReversed(start, l, AcceptedFor("pullups", l))
           IN  /\ reversed.ok
               /\ PullupsCounters(reversed) = PullupsCounters(PullupsWorld(l))

\* two users have submitted different scores to the same pullups leaderboard, the
\* lower one first, and either could submit again
C19_Witness ==
    /\ Len(accepted) = 2
    /\ accepted[1].program = "pullups"
    /\ accepted[1].user # accepted[2].user
    /\ accepted[1].leaderboard = accepted[2].leaderboard
    /\ accepted[1].score < accepted[2].score
    /\ PullupsApply(PullupsApply(PullupsWorld("L1"), "L1", "U1", U32Max), "L1", "U2", 0).ok

(***************************************************************************)
(* Claims about the leaderboards                                           *)
(***************************************************************************)
RECURSIVE SumScores(_)
SumScores(h) == IF h = << >> THEN 0 ELSE h[1].score + SumScores(Tail(h))

RECURSIVE MaxScore(_)
MaxScore(h) ==
    IF h = << >> THEN 0
    ELSE LET m == MaxScore(Tail(h)) IN IF h[1].score > m THEN h[1].score ELSE m

SubmittersOf(h) == { h[i].user : i \in 1..Len(h) }

TotalsMatch(rec, h) ==
    /\ rec.total_score = SumScores(h)
    /\ rec.best_single_score = MaxScore(h)
    /\ rec.submission_count = Len(h)

\* C1 (as claimed): every UserScore record, in both programs, holds the exact sum,
\* the maximum and the number of the accepted submissions made to it.
C1_TotalsMatchAccepted ==
    /\ \A a \in DOMAIN pullups_user_score :
           TotalsMatch(pullups_user_score[a], AcceptedOn("pullups", a))
    /\ \A a \in DOMAIN user_score :
           TotalsMatch(user_score[a], AcceptedOn("combined", a))

\* C2 (as claimed): the new-user branch is taken by the first accepted submission
\* to a record and by no later one: only the first sets first_submission_time and
\* adds one to the named leaderboard's total_participants.
C2_NewUserExactlyOnce ==
    [][ /\ \A u \in Users, l \in LeaderboardKeys, x \in U32Values :
               LET a == PullupsUserScorePda(l, u) IN
               ( PullupsSubmitScore(u, l, a, x) /\ last'.result = "Ok" )
               => IF AcceptedOn("pullups", a) = << >>
                  THEN /\ pullups_user_score'[a].first_submission_time = I64AsU64(now)
                       /\ pullups_leaderboard'[l].total_participants
                              = pullups_leaderboard[l].total_participants + 1
                  ELSE /\ pullups_user_score'[a].first_submission_time
                              = pullups_user_score[a].first_submission_time
                       /\ pullups_leaderboard'[l].total_participants
                              = pullups_leaderboard[l].total_participants
        /\ \A u \in Users, l \in LeaderboardKeys, p \in U32Values, j \in U32Values :
               LET a == UserScorePda(u) IN
               ( SubmitScore(u, l, a, p, j) /\ last'.result = "Ok" )
               => IF AcceptedOn("combined", a) = << >>
                  THEN /\ user_score'[a].first_submission_time = I64AsU64(now)
                       /\ leaderboard'[l].total_participants
                              = leaderboard[l].total_participants + 1
                  ELSE /\ user_score'[a].first_submission_time
                              = user_score[a].first_submission_time
                       /\ leaderboard'[l].total_participants
                              = leaderboard[l].total_participants
      ]_vars

CountsMatch(board, h) ==
    /\ board.total_submissions = Len(h)
    /\ board.total_participants = Cardinality(SubmittersOf(h))

\* C3 (as claimed): for every leaderboard, in both programs, total_submissions is
\* the number of accepted submissions that named it and total_participants is the
\* number of distinct users with an accepted submission that named it.
C3_CountsMatchAccepted ==
    /\ \A l \in DOMAIN pullups_leaderboard :
           CountsMatch(pullups_leaderboard[l], AcceptedFor("pullups", l))
    /\ \A l \in DOMAIN leaderboard :
           CountsMatch(leaderboard[l], AcceptedFor("combined", l))

\* C8 (as claimed): every leaderboard, in both programs, has
\* total_participants <= total_submissions in every reachable state.
C8_ParticipantsAtMostSubmissions ==
    /\ \A l \in DOMAIN pullups_leaderboard :
           pullups_leaderboard[l].total_participants <= pullups_leaderboard[l].total_submissions
    /\ \A l \in DOMAIN leaderboard :
           leaderboard[l].total_participants <= leaderboard[l].total_submissions

\* C10 (as claimed): score records are one per (leaderboard, user): an accepted
\* submission by a user naming one leaderboard leaves the record that user's
\* submissions to any other leaderboard use unchanged, and a user's first accepted
\* submission to a leaderboard counts as a new participant of that leaderboard.
C10_RecordPerLeaderboardAndUser ==
    [][ /\ \A u \in Users, l \in LeaderboardKeys, x \in U32Values :
               ( PullupsSubmitScore(u, l, PullupsUserScorePda(l, u), x) /\ last'.result = "Ok" )
               => /\ \A m \in LeaderboardKeys \ {l} :
                         LET other == PullupsUserScorePda(m, u) IN
                         /\ (other \in DOMAIN pullups_user_score')
                                = (other \in DOMAIN pullups_user_score)
                         /\ other \in DOMAIN pullups_user_score
                                => pullups_user_score'[other] = pullups_user_score[other]
                  /\ u \notin SubmittersOf(AcceptedFor("pullups", l))
                         => pullups_leaderboard'[l].total_participants
                                = pullups_leaderboard[l].total_participants + 1
        /\ \A u \in Users, l \in LeaderboardKeys, p \in U32Values, j \in U32Values :
               ( SubmitScore(u, l, UserScorePda(u), p, j) /\ last'.result = "Ok" )
               => /\ \A m \in LeaderboardKeys \ {l} :
                         u \in SubmittersOf(AcceptedFor("combined", m))
                             => user_score'[UserScorePda(u)] = user_score[UserScorePda(u)]
                  /\ u \notin SubmittersOf(AcceptedFor("combined", l))
                         => leaderboard'[l].total_participants
                                = leaderboard[l].total_participants + 1
      ]_vars

====
